---- MODULE Spec2Model ----
(***************************************************************************)
(* Model of the command-execution and streaming engine of auto-backend:    *)
(*   builder/services/shell_service.py   ShellService.run_command_stream   *)
(*   builder/services/process_manager.py ProcessManager                    *)
(*                                                                         *)
(* One streaming session is modelled with its three concurrent parties:    *)
(* the async generator (the bridge, positions in bpc), the worker thread   *)
(* run_in_thread (positions in wpc) and the child process it spawns.       *)
(* The consumer of the generator resumes it or closes it at every yield.   *)
(***************************************************************************)
EXTENDS Integers, Sequences, FiniteSets, TLC

\* ------------------------------------------------------------------ bounds
\* Largest number of lines a child writes.
MaxLines == 2
\* Largest configured timeout, in clock ticks.
MaxTimeout == 2
\* Largest exit code a child returns by itself.
MaxExitCode == 2
\* Task ids the callers of the registry use.
NumIds == 2
\* Processes the callers of the registry create.
NumProcs == 2
\* Registry operations the callers make.
MaxOps == 3
\* number of tasks submitted to the TaskService
MaxTasks == 2

\* ------------------------------------------------------------------ inputs
\* cwd argument: not supplied, supplied and existing, supplied and missing.
CwdKinds == {"none", "exists", "missing"}
\* timeout argument; 0 stands for None (both are falsy at `if timeout:`).
Timeouts == 0..MaxTimeout
ExitCodes == 0..MaxExitCode
\* The clock saturates one tick above the largest timeout: only the
\* comparison elapsed > timeout is ever made.
MaxElapsed == MaxTimeout + 1

Repeat(c, n) == [j \in 1..n |-> c]

\* The i-th raw line the child writes, as readline returns it (terminator
\* included): lines differ from one another; every second line of three
\* ends in a space before the terminator, every third one is blank.
LineAt(i) ==
    IF i % 3 = 0 THEN <<"\n">>
    ELSE Repeat("x", i) \o (IF i % 3 = 2 THEN <<" ">> ELSE <<>>) \o <<"\n">>

\* A line of output that reads like the marker of exit code 0 (a script that
\* prints the log of an earlier build, say).
EchoLine == <<"__BUILD_EXIT_CODE:", "0", "__", "\n">>

\* ------------------------------------------------------------ pure helpers
Whitespace == {" ", "\t", "\n", "\r"}

RECURSIVE RStrip(_)
\* str.rstrip() with no argument: drops every trailing whitespace character.
RStrip(s) ==
    IF s = <<>> THEN <<>>
    ELSE IF s[Len(s)] \in Whitespace THEN RStrip(SubSeq(s, 1, Len(s) - 1))
    ELSE s

\* f"__BUILD_EXIT_CODE:{returncode}__"
Marker(n) == <<"__BUILD_EXIT_CODE:", ToString(n), "__">>

\* Popen.returncode of a child ended by SIGKILL / SIGTERM.
KilledCode == 0 - 9
TerminatedCode == 0 - 15

\* The terminal record of a process that was waited for.
ExitResult(code) == [returncode |-> code, success |-> (code = 0), error |-> "none"]
\* The terminal record of the except branch of run_in_thread.
ErrorResult == [returncode |-> 0 - 1, success |-> FALSE, error |-> "exception"]

MarkerForFailureAlwaysMinusOne(result) ==
    IF ~result.success THEN Marker(0 - 1) ELSE Marker(0)

\* The last item of the stream, computed from the terminal record.
MarkerFor(result) ==
    IF ~result.success THEN Marker(result.returncode) ELSE Marker(0)

\* An item handed to the consumer: its text, and where the bridge took it from
\* (the output queue, or the marker it builds from the terminal record).
FromQueue(text) == [src |-> "queue", text |-> text]
FromResult(text) == [src |-> "marker", text |-> text]

QueueGetNewest(q) == q[Len(q)]

\* queue.Queue.get: the oldest item.
QueueGet(q) == Head(q)

\* The queue after get.
QueueRest(q) == Tail(q)

\* ------------------------------------------------------------------- state
VARIABLES
    callsLeft,      \* run_command_stream calls still to be made
    cwd,            \* the cwd argument of the call
    timeout,        \* the timeout argument of the call
    bpc,            \* position of the generator (the bridge)
    outcome,        \* how the generator ended: "none" while it has not
    yielded,        \* every item handed to the consumer so far, in order
    elapsed,        \* loop.time() - start_time, saturating at MaxElapsed
    wpc,            \* position of the worker thread run_in_thread
    process_ref,    \* process_ref[0] is set
    output_queue,   \* queue.Queue of output lines
    result_queue,   \* queue.Queue of terminal records
    enqueued,       \* every item ever put on output_queue, in order
    cstate,         \* the child process: "none", "running", "exited"
    returncode,     \* its return code once exited
    nlines,         \* number of lines the child writes before it ends
    hangs,          \* the child never exits by itself
    echoes,         \* the child's first line is text in the marker format
    exitedInTime,   \* the child exited by itself with the timeout not exceeded
    written,        \* lines the child has written to its stdout pipe
    readIdx,        \* lines the worker has read from the pipe
    siglog,         \* termination steps the bridge applied to the child
    opsLeft,        \* registry operations still to be made
    processes,      \* ProcessManager._processes: task id -> process
    lock,           \* ProcessManager._lock is held
    pstate,         \* each registry process: "none", "running", "exited"
    spc,            \* position of the stop_process call in progress
    sid,            \* its task_id
    sproc,          \* its local variable process
    slog,           \* termination steps it applied to the process
    lastRet,        \* what the last finished registry call returned
    lastOp,         \* the last registry call made, with its arguments
    signalled,      \* processes the registry has called terminate or kill on
    orphaned,       \* processes that were running when register replaced them
    faults,         \* sending a signal to a running process can raise
    bpcOf,          \* two concurrent sessions: the position of each bridge
    wpcOf,          \* the position of each session's worker thread
    outputQueueOf,  \* the output_queue created by each call
    resultQueueOf,  \* the result_queue created by each call
    yieldedOf,      \* what each session's consumer has received, in order
    nlinesOf,       \* number of lines each session's child writes
    readIdxOf,      \* lines each worker has read from its child's pipe
    opc,            \* a session whose process is registered: the position
                    \* of its except handler
    oproc,          \* the process its process_ref[0] holds
    olog,           \* termination steps the handler applied to it
    ooutcome,       \* what left the handler
    caller,         \* who consumes the stream: "none" (any consumer),
                    \* "run_command", "execute_build", "event_generator"
    output_lines,   \* the list run_command / execute_build collects
    events,         \* the SSE events event_generator has sent
    exit_code,      \* the local exit_code of event_generator
    response,       \* what the caller returned or raised in the end
    store,          \* TaskStore._store: task_id -> Task
    scheduled,      \* _process_task coroutines created and not yet started
    running,        \* the task_id of the _process_task on the event loop, or 0
    tpc,            \* its position
    ai_response,    \* its local ai_response
    parse_result,   \* its local result
    error,          \* the exception its except clause caught
    reply           \* the last answer of an upload endpoint

reqVars == <<callsLeft, cwd, timeout>>
bridgeVars == <<bpc, outcome, yielded, elapsed, siglog>>
workerVars == <<wpc, process_ref, enqueued, readIdx>>
queueVars == <<output_queue, result_queue>>
childVars == <<cstate, returncode, nlines, hangs, echoes, exitedInTime, written>>
streamVars == <<reqVars, bridgeVars, workerVars, queueVars, childVars>>

regVars == <<opsLeft, processes, lock, pstate, spc, sid, sproc, slog, lastRet,
             lastOp, signalled, orphaned>>
envVars == <<faults>>

\* What the actions of a session, and those of the registry, leave alone.
pairVars == <<bpcOf, wpcOf, outputQueueOf, resultQueueOf, yieldedOf, nlinesOf,
              readIdxOf>>

\* What the actions of a session, and those of the registry, leave alone.
ownerVars == <<opc, oproc, olog, ooutcome>>

callerVars == <<caller, output_lines, events, exit_code, response>>

taskVars == <<store, scheduled, running, tpc, ai_response, parse_result, error,
              reply>>

offStream == <<regVars, envVars, pairVars, ownerVars, callerVars, taskVars>>
offRegistry == <<streamVars, envVars, pairVars, ownerVars, callerVars, taskVars>>
offPair == <<streamVars, regVars, envVars, ownerVars, callerVars, taskVars>>
offOwner == <<streamVars, envVars, pairVars, callerVars, taskVars, opsLeft, processes, lock,
              spc, sid, sproc, slog, lastRet, lastOp, signalled, orphaned>>
offCaller == <<regVars, envVars, pairVars, ownerVars, taskVars>>
offTasks == <<streamVars, regVars, envVars, pairVars, ownerVars, callerVars>>

vars == <<streamVars, regVars, envVars, pairVars, ownerVars, callerVars, taskVars>>

InitStream ==
    /\ cwd = "none"
    /\ timeout = 0
    /\ bpc = "idle"
    /\ outcome = "none"
    /\ yielded = <<>>
    /\ elapsed = 0
    /\ wpc = "none"
    /\ process_ref = FALSE
    /\ output_queue = <<>>
    /\ result_queue = <<>>
    /\ enqueued = <<>>
    /\ cstate = "none"
    /\ returncode = 0
    /\ nlines = 0
    /\ hangs = FALSE
    /\ echoes = FALSE
    /\ exitedInTime = FALSE
    /\ written = 0
    /\ readIdx = 0
    /\ siglog = <<>>

\* ----------------------------------------------------------- child process
\* The effect of SIGKILL on the child (Popen.kill is a no-op once the
\* return code is known).
KillChild ==
    /\ cstate' = (IF cstate = "none" THEN "none" ELSE "exited")
    /\ returncode' = (IF cstate = "running" THEN KilledCode ELSE returncode)

\* The child writes its next line.
ChildWrite ==
    /\ cstate = "running"
    /\ written < nlines
    /\ written' = written + 1
    /\ UNCHANGED <<cstate, returncode, nlines, hangs, echoes, exitedInTime>>
    /\ UNCHANGED <<reqVars, bridgeVars, workerVars, queueVars>>
    /\ UNCHANGED offStream

\* The child ends by itself, after its last line, with some exit code.
ChildExit ==
    /\ cstate = "running"
    /\ written = nlines
    /\ ~hangs
    /\ \E code \in ExitCodes :
        /\ cstate' = "exited"
        /\ returncode' = code
    /\ exitedInTime' = (timeout = 0 \/ elapsed <= timeout)
    /\ UNCHANGED <<nlines, hangs, echoes, written>>
    /\ UNCHANGED <<reqVars, bridgeVars, workerVars, queueVars>>
    /\ UNCHANGED offStream

\* ------------------------------------------------------- the worker thread
ThreadAlive == wpc \in {"popen", "publish", "read", "wait", "fin"}

\* subprocess.Popen(...): the child starts, or Popen raises and the except
\* branch puts the error record.
WorkerPopen ==
    /\ wpc = "popen"
    /\ \/ /\ \E k \in 0..MaxLines, h \in BOOLEAN, e \in BOOLEAN :
              /\ e => k > 0
              /\ nlines' = k
              /\ hangs' = h
              /\ echoes' = e
          /\ cstate' = "running"
          /\ wpc' = "publish"
          /\ UNCHANGED <<returncode, exitedInTime, written, result_queue>>
       \/ /\ result_queue' = Append(result_queue, ErrorResult)
          /\ wpc' = "fin"
          /\ UNCHANGED childVars
    /\ UNCHANGED <<process_ref, enqueued, readIdx, output_queue>>
    /\ UNCHANGED <<reqVars, bridgeVars>>
    /\ UNCHANGED offStream

\* process_ref[0] = process
WorkerPublish ==
    /\ wpc = "publish"
    /\ process_ref' = TRUE
    /\ wpc' = "read"
    /\ UNCHANGED <<enqueued, readIdx>>
    /\ UNCHANGED <<reqVars, bridgeVars, queueVars, childVars>>
    /\ UNCHANGED offStream

\* What the worker puts on the queue for a line it read.
PutLine(line) == RStrip(line)

\* The i-th line this child writes.
ChildLine(i) == IF echoes /\ i = 1 THEN EchoLine ELSE LineAt(i)

\* for line in iter(process.stdout.readline, ''): one line is read and put.
WorkerReadLine ==
    /\ wpc = "read"
    /\ readIdx < written
    /\ LET item == PutLine(ChildLine(readIdx + 1)) IN
        /\ output_queue' = Append(output_queue, item)
        /\ enqueued' = Append(enqueued, item)
    /\ readIdx' = readIdx + 1
    /\ UNCHANGED <<wpc, process_ref, result_queue>>
    /\ UNCHANGED <<reqVars, bridgeVars, childVars>>
    /\ UNCHANGED offStream

\* readline returns '': the pipe is drained and the child has closed it.
WorkerEof ==
    /\ wpc = "read"
    /\ readIdx = written
    /\ cstate = "exited"
    /\ wpc' = "wait"
    /\ UNCHANGED <<process_ref, enqueued, readIdx>>
    /\ UNCHANGED <<reqVars, bridgeVars, queueVars, childVars>>
    /\ UNCHANGED offStream

WorkerWaitSkipsRecord ==
    /\ wpc = "wait"
    /\ cstate = "exited"
    /\ wpc' = "fin"
    /\ UNCHANGED <<process_ref, enqueued, readIdx, output_queue, result_queue>>
    /\ UNCHANGED <<reqVars, bridgeVars, childVars>>
    /\ UNCHANGED offStream

\* process.wait() and result_queue.put({...}).
WorkerWait ==
    /\ wpc = "wait"
    /\ cstate = "exited"
    /\ result_queue' = Append(result_queue, ExitResult(returncode))
    /\ wpc' = "fin"
    /\ UNCHANGED <<process_ref, enqueued, readIdx, output_queue>>
    /\ UNCHANGED <<reqVars, bridgeVars, childVars>>
    /\ UNCHANGED offStream

\* run_in_thread returns: thread.is_alive() is False from now on.
WorkerFinish ==
    /\ wpc = "fin"
    /\ wpc' = "dead"
    /\ UNCHANGED <<process_ref, enqueued, readIdx>>
    /\ UNCHANGED <<reqVars, bridgeVars, queueVars, childVars>>
    /\ UNCHANGED offStream

\* --------------------------------------------------- the bridge (generator)
CwdMissingNever(c) == FALSE

\* The working-directory check fails: `if cwd:` and `not cwd_path.exists()`.
CwdMissing(c) == c = "missing"

\* The call and the first pull of the generator: the working directory is
\* checked, the queues are created, the thread is started, the clock is read.
Begin ==
    /\ bpc = "idle"
    /\ callsLeft > 0
    /\ callsLeft' = callsLeft - 1
    /\ \E c \in CwdKinds, t \in Timeouts :
        /\ cwd' = c
        /\ timeout' = t
        /\ IF CwdMissing(c)
           THEN /\ bpc' = "done"
                /\ outcome' = "FileNotFoundError"
                /\ wpc' = wpc
           ELSE /\ bpc' = "loop"
                /\ outcome' = outcome
                /\ wpc' = "popen"
    /\ elapsed' = 0
    /\ UNCHANGED <<yielded, siglog, process_ref, enqueued, readIdx>>
    /\ UNCHANGED <<queueVars, childVars>>
    /\ UNCHANGED offStream

\* while thread.is_alive():
LoopTest ==
    /\ bpc = "loop"
    /\ bpc' = (IF ThreadAlive THEN "poll" ELSE "result")
    /\ UNCHANGED <<outcome, yielded, elapsed, siglog>>
    /\ UNCHANGED <<reqVars, workerVars, queueVars, childVars>>
    /\ UNCHANGED offStream

\* line = output_queue.get(timeout=0.1): a line is taken and yielded, or
\* queue.Empty is raised.
Poll ==
    /\ bpc = "poll"
    /\ IF output_queue # <<>>
       THEN /\ yielded' = Append(yielded, FromQueue(QueueGet(output_queue)))
            /\ output_queue' = QueueRest(output_queue)
            /\ bpc' = "yield"
       ELSE /\ bpc' = "check"
            /\ UNCHANGED <<yielded, output_queue>>
    /\ UNCHANGED <<outcome, elapsed, siglog, result_queue>>
    /\ UNCHANGED <<reqVars, workerVars, childVars>>
    /\ UNCHANGED offStream

\* The consumer asks for the next item: the generator goes on after the
\* yield of a line, or returns after the yield of the marker.
Resume ==
    /\ \/ /\ bpc = "yield"
          /\ bpc' = "check"
          /\ outcome' = outcome
       \/ /\ bpc = "yieldMarker"
          /\ bpc' = "done"
          /\ outcome' = "returned"
    /\ UNCHANGED <<yielded, elapsed, siglog>>
    /\ UNCHANGED <<reqVars, workerVars, queueVars, childVars>>
    /\ UNCHANGED offStream

\* The consumer closes the generator at a yield: GeneratorExit is thrown in.
Abandon ==
    /\ bpc \in {"yield", "yieldMarker"}
    /\ bpc' = "gx"
    /\ UNCHANGED <<outcome, yielded, elapsed, siglog>>
    /\ UNCHANGED <<reqVars, workerVars, queueVars, childVars>>
    /\ UNCHANGED offStream

TimedOutNever == FALSE

TimedOutOnlyWhileRunning == timeout # 0 /\ elapsed > timeout /\ cstate = "running"

\* if timeout: ... if elapsed > timeout
TimedOut == timeout # 0 /\ elapsed > timeout

CheckSkipsSleep ==
    /\ bpc = "check"
    /\ bpc' = (IF TimedOut THEN "tk" ELSE "loop")
    /\ UNCHANGED <<outcome, yielded, elapsed, siglog>>
    /\ UNCHANGED <<reqVars, workerVars, queueVars, childVars>>
    /\ UNCHANGED offStream

\* The timeout check made after a yielded line and after queue.Empty.
Check ==
    /\ bpc = "check"
    /\ bpc' = (IF TimedOut THEN "tk" ELSE "sleep")
    /\ UNCHANGED <<outcome, yielded, elapsed, siglog>>
    /\ UNCHANGED <<reqVars, workerVars, queueVars, childVars>>
    /\ UNCHANGED offStream

\* await asyncio.sleep(0)
Sleep ==
    /\ bpc = "sleep"
    /\ bpc' = "loop"
    /\ UNCHANGED <<outcome, yielded, elapsed, siglog>>
    /\ UNCHANGED <<reqVars, workerVars, queueVars, childVars>>
    /\ UNCHANGED offStream

\* result = result_queue.get(timeout=1), then the marker is yielded;
\* queue.Empty leaves through `except Exception: raise`.
GetResult ==
    /\ bpc = "result"
    /\ IF result_queue # <<>>
       THEN /\ yielded' = Append(yielded, FromResult(MarkerFor(QueueGet(result_queue))))
            /\ result_queue' = QueueRest(result_queue)
            /\ bpc' = "yieldMarker"
            /\ outcome' = outcome
       ELSE /\ bpc' = "done"
            /\ outcome' = "Empty"
            /\ UNCHANGED <<yielded, result_queue>>
    /\ UNCHANGED <<elapsed, siglog, output_queue>>
    /\ UNCHANGED <<reqVars, workerVars, childVars>>
    /\ UNCHANGED offStream

HandlerOutcomeUncaught(caught, cleanupRaised) ==
    IF cleanupRaised THEN "PermissionError" ELSE caught

\* What leaves an except handler of the generator: the cleanup is inside
\* try/except Exception (logged), then a bare raise re-raises what was caught.
HandlerOutcome(caught, cleanupRaised) == caught

\* except GeneratorExit: process_ref[0].terminate() when a process is known.
\* The child ends on SIGTERM or keeps running (it ignores it or is slow); or
\* the signal cannot be sent to the running child and terminate() raises.
GxTerminate ==
    /\ bpc = "gx"
    /\ IF process_ref
       THEN \/ /\ siglog' = Append(siglog, "terminate")
               /\ bpc' = "gxwait"
               /\ outcome' = outcome
               /\ \/ /\ cstate = "running"
                     /\ cstate' = "exited"
                     /\ returncode' = TerminatedCode
                  \/ UNCHANGED <<cstate, returncode>>
            \/ /\ faults
               /\ cstate = "running"
               /\ siglog' = Append(siglog, "terminate_failed")
               /\ bpc' = "done"
               /\ outcome' = HandlerOutcome("GeneratorExit", TRUE)
               /\ UNCHANGED <<cstate, returncode>>
       ELSE /\ bpc' = "done"
            /\ outcome' = "GeneratorExit"
            /\ UNCHANGED <<siglog, cstate, returncode>>
    /\ UNCHANGED <<yielded, elapsed, nlines, hangs, echoes, exitedInTime, written>>
    /\ UNCHANGED <<reqVars, workerVars, queueVars>>
    /\ UNCHANGED offStream

\* process_ref[0].wait(timeout=3): returns when the child has exited,
\* raises TimeoutExpired otherwise.
GxWait ==
    /\ bpc = "gxwait"
    /\ IF cstate = "exited"
       THEN /\ siglog' = Append(siglog, "wait_exited")
            /\ bpc' = "done"
            /\ outcome' = "GeneratorExit"
       ELSE /\ siglog' = Append(siglog, "wait_expired")
            /\ bpc' = "gxkill"
            /\ outcome' = outcome
    /\ UNCHANGED <<yielded, elapsed>>
    /\ UNCHANGED <<reqVars, workerVars, queueVars, childVars>>
    /\ UNCHANGED offStream

GxKillSkipped ==
    /\ bpc = "gxkill"
    /\ bpc' = "done"
    /\ outcome' = "GeneratorExit"
    /\ UNCHANGED <<siglog, yielded, elapsed, nlines, hangs, echoes, exitedInTime, written>>
    /\ UNCHANGED <<cstate, returncode>>
    /\ UNCHANGED <<reqVars, workerVars, queueVars>>
    /\ UNCHANGED offStream

\* except: process_ref[0].kill(), then GeneratorExit is raised again.
GxKill ==
    /\ bpc = "gxkill"
    /\ \/ /\ KillChild
          /\ siglog' = Append(siglog, "kill")
          /\ outcome' = HandlerOutcome("GeneratorExit", FALSE)
       \/ /\ faults
          /\ cstate = "running"
          /\ siglog' = Append(siglog, "kill_failed")
          /\ outcome' = HandlerOutcome("GeneratorExit", TRUE)
          /\ UNCHANGED <<cstate, returncode>>
    /\ bpc' = "done"
    /\ UNCHANGED <<yielded, elapsed, nlines, hangs, echoes, exitedInTime, written>>
    /\ UNCHANGED <<reqVars, workerVars, queueVars>>
    /\ UNCHANGED offStream

\* except TimeoutError: process_ref[0].kill() when a process is known, then
\* the error is raised again.
TimeoutKill ==
    /\ bpc = "tk"
    /\ IF process_ref
       THEN \/ /\ KillChild
               /\ siglog' = Append(siglog, "kill")
               /\ outcome' = HandlerOutcome("TimeoutError", FALSE)
            \/ /\ faults
               /\ cstate = "running"
               /\ siglog' = Append(siglog, "kill_failed")
               /\ outcome' = HandlerOutcome("TimeoutError", TRUE)
               /\ UNCHANGED <<cstate, returncode>>
       ELSE /\ outcome' = HandlerOutcome("TimeoutError", FALSE)
            /\ UNCHANGED <<siglog, cstate, returncode>>
    /\ bpc' = "done"
    /\ UNCHANGED <<yielded, elapsed, nlines, hangs, echoes, exitedInTime, written>>
    /\ UNCHANGED <<reqVars, workerVars, queueVars>>
    /\ UNCHANGED offStream

\* Time passes while the session is open.
Tick ==
    /\ bpc \notin {"idle", "done"}
    /\ elapsed < MaxElapsed
    /\ elapsed' = elapsed + 1
    /\ UNCHANGED <<bpc, outcome, yielded, siglog>>
    /\ UNCHANGED <<reqVars, workerVars, queueVars, childVars>>
    /\ UNCHANGED offStream

NextStream ==
    \/ Begin
    \/ LoopTest
    \/ Poll
    \/ Resume
    \/ Abandon
    \/ Check
    \/ Sleep
    \/ GetResult
    \/ GxTerminate
    \/ GxWait
    \/ GxKill
    \/ TimeoutKill
    \/ Tick
    \/ WorkerPopen
    \/ WorkerPublish
    \/ WorkerReadLine
    \/ WorkerEof
    \/ WorkerWait
    \/ WorkerFinish
    \/ ChildWrite
    \/ ChildExit

\* ---------------------------------------------------------- ProcessManager
TaskIds == 1..NumIds
Procs == 1..NumProcs

InitRegistry ==
    /\ processes = <<>>
    /\ lock = FALSE
    /\ pstate = [p \in Procs |-> "none"]
    /\ spc = "idle"
    /\ sid = 1
    /\ sproc = 1
    /\ slog = <<>>
    /\ lastRet = "none"
    /\ lastOp = [op |-> "none", id |-> 0, proc |-> 0]
    /\ signalled = {}
    /\ orphaned = {}

\* The processes the map holds: self._processes.values()
Registered(map) == {map[i] : i \in DOMAIN map}

\* del self._processes[task_id]
Remove(map, id) == [i \in (DOMAIN map) \ {id} |-> map[i]]

\* A process of the registry ends by itself.
ProcExit ==
    /\ \E p \in Procs :
        /\ pstate[p] = "running"
        /\ pstate' = [pstate EXCEPT ![p] = "exited"]
    /\ UNCHANGED <<opsLeft, processes, lock, spc, sid, sproc, slog, lastRet>>
    /\ UNCHANGED <<lastOp, signalled, orphaned>>
    /\ UNCHANGED offRegistry

RegisterMapKeepsFirst(map, id, p) == map @@ (id :> p)

\* self._processes[task_id] = process
RegisterMap(map, id, p) == (id :> p) @@ map

\* register(task_id, process), under the lock, with the process the caller
\* has just created for this execution (no two executions share a process).
\* Nothing is done to a process the id mapped to.
Register ==
    /\ ~lock
    /\ opsLeft > 0
    /\ opsLeft' = opsLeft - 1
    /\ \E id \in TaskIds, p \in Procs :
        /\ pstate[p] = "none"
        /\ processes' = RegisterMap(processes, id, p)
        /\ pstate' = [pstate EXCEPT ![p] = "running"]
        /\ lastOp' = [op |-> "register", id |-> id, proc |-> p]
        /\ orphaned' = IF /\ id \in DOMAIN processes
                          /\ processes[id] # p
                          /\ pstate[processes[id]] = "running"
                       THEN orphaned \cup {processes[id]}
                       ELSE orphaned
    /\ lastRet' = "None"
    /\ UNCHANGED <<lock, spc, sid, sproc, slog, signalled>>
    /\ UNCHANGED offRegistry

UnregisterMapClears(map, id) == <<>>

\* if task_id in self._processes: del self._processes[task_id]
UnregisterMap(map, id) == IF id \in DOMAIN map THEN Remove(map, id) ELSE map

UnregisterWithoutLock ==
    /\ opsLeft > 0
    /\ opsLeft' = opsLeft - 1
    /\ \E id \in TaskIds :
        /\ processes' = UnregisterMap(processes, id)
        /\ lastOp' = [op |-> "unregister", id |-> id, proc |-> 0]
    /\ lastRet' = "None"
    /\ UNCHANGED <<lock, pstate, spc, sid, sproc, slog, signalled, orphaned>>
    /\ UNCHANGED offRegistry

\* unregister(task_id), under the lock.
Unregister ==
    /\ ~lock
    /\ opsLeft > 0
    /\ opsLeft' = opsLeft - 1
    /\ \E id \in TaskIds :
        /\ processes' = UnregisterMap(processes, id)
        /\ lastOp' = [op |-> "unregister", id |-> id, proc |-> 0]
    /\ lastRet' = "None"
    /\ UNCHANGED <<lock, pstate, spc, sid, sproc, slog, signalled, orphaned>>
    /\ UNCHANGED offRegistry

StopUnknownReturnsTrue == "True"

\* if task_id not in self._processes: return False
StopUnknownReturn == "False"

\* stop_process(task_id) takes the lock; an unknown id returns False at once,
\* a known one is looked up.
StopBegin ==
    /\ ~lock
    /\ opsLeft > 0
    /\ opsLeft' = opsLeft - 1
    /\ \E id \in TaskIds :
        /\ lastOp' = [op |-> "stop_process", id |-> id, proc |-> 0]
        /\ IF id \notin DOMAIN processes
           THEN /\ lastRet' = StopUnknownReturn
                /\ UNCHANGED <<lock, spc, sid, sproc, slog>>
           ELSE /\ lock' = TRUE
                /\ sid' = id
                /\ sproc' = processes[id]
                /\ spc' = "terminate"
                /\ slog' = <<>>
                /\ lastRet' = "none"
    /\ UNCHANGED <<processes, pstate, signalled, orphaned>>
    /\ UNCHANGED offRegistry

\* except Exception as e: logger.error(...); return False. The entry is not
\* deleted; the lock is released on the way out.
StopFailed ==
    /\ lastRet' = "False"
    /\ lock' = FALSE
    /\ spc' = "idle"
    /\ UNCHANGED <<processes, pstate>>

\* process.terminate(): the process ends on SIGTERM or keeps running; or the
\* signal cannot be sent to a running process and the call raises.
StopTerminate ==
    /\ spc = "terminate"
    /\ signalled' = signalled \cup {sproc}
    /\ \/ /\ slog' = Append(slog, "terminate")
          /\ spc' = "wait"
          /\ \/ /\ pstate[sproc] = "running"
                /\ pstate' = [pstate EXCEPT ![sproc] = "exited"]
             \/ UNCHANGED pstate
          /\ UNCHANGED <<processes, lock, lastRet>>
       \/ /\ faults
          /\ pstate[sproc] = "running"
          /\ slog' = Append(slog, "terminate_failed")
          /\ StopFailed
    /\ UNCHANGED <<opsLeft, sid, sproc, lastOp, orphaned>>
    /\ UNCHANGED offRegistry

StopWaitAlwaysKills ==
    /\ spc = "wait"
    /\ slog' = Append(slog, "wait_exited")
    /\ spc' = "kill"
    /\ UNCHANGED <<opsLeft, processes, lock, pstate, sid, sproc, lastRet>>
    /\ UNCHANGED <<lastOp, signalled, orphaned>>
    /\ UNCHANGED offRegistry

\* process.wait(timeout=3): returns when the process has exited, raises
\* TimeoutExpired otherwise.
StopWait ==
    /\ spc = "wait"
    /\ IF pstate[sproc] = "exited"
       THEN /\ slog' = Append(slog, "wait_exited")
            /\ spc' = "finish"
       ELSE /\ slog' = Append(slog, "wait_expired")
            /\ spc' = "kill"
    /\ UNCHANGED <<opsLeft, processes, lock, pstate, sid, sproc, lastRet>>
    /\ UNCHANGED <<lastOp, signalled, orphaned>>
    /\ UNCHANGED offRegistry

\* except: process.kill(); a kill that raises leaves through the outer handler.
StopKill ==
    /\ spc = "kill"
    /\ signalled' = signalled \cup {sproc}
    /\ \/ /\ pstate' = [pstate EXCEPT ![sproc] = "exited"]
          /\ slog' = Append(slog, "kill")
          /\ spc' = "finish"
          /\ UNCHANGED <<processes, lock, lastRet>>
       \/ /\ faults
          /\ pstate[sproc] = "running"
          /\ slog' = Append(slog, "kill_failed")
          /\ StopFailed
    /\ UNCHANGED <<opsLeft, sid, sproc, lastOp, orphaned>>
    /\ UNCHANGED offRegistry

\* del self._processes[task_id]; return True; the lock is released.
StopFinish ==
    /\ spc = "finish"
    /\ processes' = Remove(processes, sid)
    /\ lastRet' = "True"
    /\ lock' = FALSE
    /\ spc' = "idle"
    /\ UNCHANGED <<opsLeft, pstate, sid, sproc, slog>>
    /\ UNCHANGED <<lastOp, signalled, orphaned>>
    /\ UNCHANGED offRegistry

StopAllMapKeepsFailed(map, failed) ==
    [i \in {j \in DOMAIN map : map[j] \in failed} |-> map[i]]

\* self._processes.clear(), reached whatever the kills did: each kill has its
\* own try/except Exception.
StopAllMap(map, failed) == <<>>

\* stop_all(): process.kill() on every registered process, then the map is
\* cleared. failed: the running processes whose kill raised.
StopAll ==
    /\ ~lock
    /\ opsLeft > 0
    /\ opsLeft' = opsLeft - 1
    /\ \E failed \in SUBSET {p \in Registered(processes) :
                                faults /\ pstate[p] = "running"} :
        /\ pstate' = [p \in Procs |->
                        IF p \in Registered(processes) \ failed
                        THEN "exited" ELSE pstate[p]]
        /\ processes' = StopAllMap(processes, failed)
    /\ signalled' = signalled \cup Registered(processes)
    /\ lastOp' = [op |-> "stop_all", id |-> 0, proc |-> 0]
    /\ lastRet' = "None"
    /\ UNCHANGED <<lock, spc, sid, sproc, slog, orphaned>>
    /\ UNCHANGED offRegistry

NextRegistry ==
    \/ ProcExit
    \/ Register
    \/ Unregister
    \/ StopBegin
    \/ StopTerminate
    \/ StopWait
    \/ StopKill
    \/ StopFinish
    \/ StopAll

\* ------------------------------------------------- two concurrent sessions
\* Two calls of run_command_stream in flight at once, each with its own
\* worker thread, child and consumer; no timeout, no cwd, a child that can be
\* spawned, a consumer that keeps pulling.
Sessions == {"a", "b"}

InitPair ==
    /\ wpcOf = [s \in Sessions |-> "none"]
    /\ outputQueueOf = [s \in Sessions |-> <<>>]
    /\ resultQueueOf = [s \in Sessions |-> <<>>]
    /\ yieldedOf = [s \in Sessions |-> <<>>]
    /\ nlinesOf = [s \in Sessions |-> 0]
    /\ readIdxOf = [s \in Sessions |-> 0]

QueueOfShared(s) == "a"

\* The queues the closure run_in_thread and the polling loop of call s refer
\* to: the locals output_queue and result_queue that this call created.
QueueOf(s) == s

\* The call creates its queues and starts its worker thread.
PairBegin(s) ==
    /\ bpcOf[s] = "idle"
    /\ bpcOf' = [bpcOf EXCEPT ![s] = "loop"]
    /\ wpcOf' = [wpcOf EXCEPT ![s] = "popen"]
    /\ UNCHANGED <<outputQueueOf, resultQueueOf, yieldedOf, nlinesOf, readIdxOf>>
    /\ UNCHANGED offPair

\* The worker spawns its child, which will write some lines and exit.
PairPopen(s) ==
    /\ wpcOf[s] = "popen"
    /\ wpcOf' = [wpcOf EXCEPT ![s] = "read"]
    /\ \E k \in 0..MaxLines : nlinesOf' = [nlinesOf EXCEPT ![s] = k]
    /\ UNCHANGED <<bpcOf, outputQueueOf, resultQueueOf, yieldedOf, readIdxOf>>
    /\ UNCHANGED offPair

\* for line in iter(process.stdout.readline, ''): output_queue.put(...)
PairReadLine(s) ==
    /\ wpcOf[s] = "read"
    /\ readIdxOf[s] < nlinesOf[s]
    /\ readIdxOf' = [readIdxOf EXCEPT ![s] = @ + 1]
    /\ outputQueueOf' = [outputQueueOf EXCEPT ![QueueOf(s)] =
            Append(@, [owner |-> s, src |-> "queue", n |-> readIdxOf[s] + 1])]
    /\ UNCHANGED <<bpcOf, wpcOf, resultQueueOf, yieldedOf, nlinesOf>>
    /\ UNCHANGED offPair

\* End of the child's output: process.wait(), result_queue.put(...), and the
\* thread ends.
PairFinish(s) ==
    /\ wpcOf[s] = "read"
    /\ readIdxOf[s] = nlinesOf[s]
    /\ wpcOf' = [wpcOf EXCEPT ![s] = "dead"]
    /\ resultQueueOf' = [resultQueueOf EXCEPT ![QueueOf(s)] =
            Append(@, [owner |-> s, src |-> "result", n |-> 0])]
    /\ UNCHANGED <<bpcOf, outputQueueOf, yieldedOf, nlinesOf, readIdxOf>>
    /\ UNCHANGED offPair

\* while thread.is_alive():
PairLoopTest(s) ==
    /\ bpcOf[s] = "loop"
    /\ bpcOf' = [bpcOf EXCEPT ![s] = IF wpcOf[s] = "dead" THEN "result" ELSE "poll"]
    /\ UNCHANGED <<wpcOf, outputQueueOf, resultQueueOf, yieldedOf, nlinesOf, readIdxOf>>
    /\ UNCHANGED offPair

\* output_queue.get(timeout=0.1) and yield line, or queue.Empty; then the
\* loop goes round.
PairPoll(s) ==
    /\ bpcOf[s] = "poll"
    /\ bpcOf' = [bpcOf EXCEPT ![s] = "loop"]
    /\ IF outputQueueOf[QueueOf(s)] # <<>>
       THEN /\ yieldedOf' = [yieldedOf EXCEPT ![s] =
                                Append(@, Head(outputQueueOf[QueueOf(s)]))]
            /\ outputQueueOf' = [outputQueueOf EXCEPT ![QueueOf(s)] = Tail(@)]
       ELSE UNCHANGED <<yieldedOf, outputQueueOf>>
    /\ UNCHANGED <<wpcOf, resultQueueOf, nlinesOf, readIdxOf>>
    /\ UNCHANGED offPair

\* result = result_queue.get(timeout=1) and the marker is yielded; the
\* generator ends.
PairGetResult(s) ==
    /\ bpcOf[s] = "result"
    /\ bpcOf' = [bpcOf EXCEPT ![s] = "done"]
    /\ IF resultQueueOf[QueueOf(s)] # <<>>
       THEN /\ yieldedOf' = [yieldedOf EXCEPT ![s] =
                                Append(@, Head(resultQueueOf[QueueOf(s)]))]
            /\ resultQueueOf' = [resultQueueOf EXCEPT ![QueueOf(s)] = Tail(@)]
       ELSE UNCHANGED <<yieldedOf, resultQueueOf>>
    /\ UNCHANGED <<wpcOf, outputQueueOf, nlinesOf, readIdxOf>>
    /\ UNCHANGED offPair

NextPair ==
    \E s \in Sessions :
        \/ PairBegin(s)
        \/ PairPopen(s)
        \/ PairReadLine(s)
        \/ PairFinish(s)
        \/ PairLoopTest(s)
        \/ PairPoll(s)
        \/ PairGetResult(s)

\* ------------------------------- a session whose process is registered
\* The except handlers of run_command_stream at work on a process that a
\* caller has also put in the registry, so that stop_process and stop_all can
\* act on it at the same time. The session around the handlers is left open:
\* GeneratorExit or TimeoutError can arrive at any moment once the process
\* exists.
InitOwner ==
    /\ opc = "idle"
    /\ oproc = 1
    /\ olog = <<>>
    /\ ooutcome = "none"

\* The consumer closes the generator ("gx") or the timeout check raises
\* ("tk"); process_ref[0] holds a process that was registered.
OwnerRaise ==
    /\ opc = "idle"
    /\ \E p \in Procs, h \in {"gx", "tk"} :
        /\ pstate[p] # "none"
        /\ oproc' = p
        /\ opc' = h
    /\ UNCHANGED <<olog, ooutcome, pstate>>
    /\ UNCHANGED offOwner

\* except GeneratorExit: process_ref[0].terminate()
OwnerGxTerminate ==
    /\ opc = "gx"
    /\ \/ /\ olog' = Append(olog, "terminate")
          /\ opc' = "gxwait"
          /\ ooutcome' = ooutcome
          /\ \/ /\ pstate[oproc] = "running"
                /\ pstate' = [pstate EXCEPT ![oproc] = "exited"]
             \/ UNCHANGED pstate
       \/ /\ faults
          /\ pstate[oproc] = "running"
          /\ olog' = Append(olog, "terminate_failed")
          /\ opc' = "done"
          /\ ooutcome' = HandlerOutcome("GeneratorExit", TRUE)
          /\ UNCHANGED pstate
    /\ UNCHANGED oproc
    /\ UNCHANGED offOwner

\* process_ref[0].wait(timeout=3)
OwnerGxWait ==
    /\ opc = "gxwait"
    /\ IF pstate[oproc] = "exited"
       THEN /\ olog' = Append(olog, "wait_exited")
            /\ opc' = "done"
            /\ ooutcome' = HandlerOutcome("GeneratorExit", FALSE)
       ELSE /\ olog' = Append(olog, "wait_expired")
            /\ opc' = "gxkill"
            /\ ooutcome' = ooutcome
    /\ UNCHANGED <<oproc, pstate>>
    /\ UNCHANGED offOwner

OwnerGxKillSkipped ==
    /\ opc = "gxkill"
    /\ opc' = "done"
    /\ ooutcome' = HandlerOutcome("GeneratorExit", FALSE)
    /\ UNCHANGED <<olog, oproc, pstate>>
    /\ UNCHANGED offOwner

\* except: process_ref[0].kill(), then GeneratorExit is raised again.
OwnerGxKill ==
    /\ opc = "gxkill"
    /\ \/ /\ pstate' = [pstate EXCEPT ![oproc] = "exited"]
          /\ olog' = Append(olog, "kill")
          /\ ooutcome' = HandlerOutcome("GeneratorExit", FALSE)
       \/ /\ faults
          /\ pstate[oproc] = "running"
          /\ olog' = Append(olog, "kill_failed")
          /\ ooutcome' = HandlerOutcome("GeneratorExit", TRUE)
          /\ UNCHANGED pstate
    /\ opc' = "done"
    /\ UNCHANGED oproc
    /\ UNCHANGED offOwner

\* except TimeoutError: process_ref[0].kill(), then the error is raised again.
OwnerTimeoutKill ==
    /\ opc = "tk"
    /\ \/ /\ pstate' = [pstate EXCEPT ![oproc] = "exited"]
          /\ olog' = Append(olog, "kill")
          /\ ooutcome' = HandlerOutcome("TimeoutError", FALSE)
       \/ /\ faults
          /\ pstate[oproc] = "running"
          /\ olog' = Append(olog, "kill_failed")
          /\ ooutcome' = HandlerOutcome("TimeoutError", TRUE)
          /\ UNCHANGED pstate
    /\ opc' = "done"
    /\ UNCHANGED oproc
    /\ UNCHANGED offOwner

NextOwner ==
    \/ OwnerRaise
    \/ OwnerGxTerminate
    \/ OwnerGxWait
    \/ OwnerGxKill
    \/ OwnerTimeoutKill

\* ------------------------------------------------ callers of the stream
\* run_command, execute_build and the event_generator of execute_build_stream
\* each drain run_command_stream with `async for`: they ask for the next item
\* after every yield and never close the generator.
Callers == {"run_command", "execute_build", "event_generator"}

NoResponse == [kind |-> "none", value |-> <<>>, success |-> FALSE, exit_code |-> 0]

InitCaller ==
    /\ output_lines = <<>>
    /\ events = <<>>
    /\ exit_code = 0
    /\ response = NoResponse

RECURSIVE Join(_)
\* '\n'.join(lines)
Join(lines) ==
    IF lines = <<>> THEN <<>>
    ELSE IF Len(lines) = 1 THEN lines[1]
    ELSE lines[1] \o <<"\n">> \o Join(Tail(lines))

AppendLineInFront(lines, line) == <<line>> \o lines

\* output_lines.append(line)
AppendLine(lines, line) == Append(lines, line)

\* int(line.split("__BUILD_EXIT_CODE:")[1].split("__")[0])
ParseCode(text) ==
    CHOOSE n \in (0 - 15)..MaxExitCode : ToString(n) = text[2]

LogEvent(line) == [type |-> "log", line |-> line, success |-> FALSE]
CompleteEventAlwaysTrue(ok) == [type |-> "complete", line |-> <<>>, success |-> TRUE]
CompleteEvent(ok) == [type |-> "complete", line |-> <<>>, success |-> ok]

\* The body of the caller's `async for` runs on the item just yielded, then
\* the generator is asked for the next item.
CallerPull ==
    /\ response.kind = "none"
    /\ \/ /\ bpc = "yield"
          /\ bpc' = "check"
          /\ outcome' = outcome
       \/ /\ bpc = "yieldMarker"
          /\ bpc' = "done"
          /\ outcome' = "returned"
    /\ LET line == yielded[Len(yielded)].text IN
        IF caller = "event_generator"
        THEN /\ IF Len(line) > 0 /\ line[1] = "__BUILD_EXIT_CODE:"
                THEN /\ exit_code' = ParseCode(line)
                     /\ events' = events
                ELSE /\ events' = Append(events, LogEvent(line))
                     /\ exit_code' = exit_code
             /\ UNCHANGED output_lines
        ELSE /\ output_lines' = AppendLine(output_lines, line)
             /\ UNCHANGED <<events, exit_code>>
    /\ UNCHANGED <<caller, response>>
    /\ UNCHANGED <<yielded, elapsed, siglog>>
    /\ UNCHANGED <<reqVars, workerVars, queueVars, childVars>>
    /\ UNCHANGED offCaller

\* What run_command does once the stream is over: it returns the joined
\* lines; an exception of the stream passes through it.
RunCommandEnd ==
    IF outcome = "returned"
    THEN [kind |-> "return", value |-> Join(output_lines),
          success |-> FALSE, exit_code |-> 0]
    ELSE [kind |-> "raise", value |-> <<outcome>>,
          success |-> FALSE, exit_code |-> 0]

\* What execute_build returns once the stream is over: the response of the
\* try body, or the one of `except Exception`.
ExecuteBuildEnd ==
    IF outcome = "returned"
    THEN [kind |-> "return", value |-> Join(output_lines),
          success |-> TRUE, exit_code |-> 0]
    ELSE [kind |-> "return", value |-> <<>>,
          success |-> FALSE, exit_code |-> 0 - 1]

\* The 'complete' event event_generator sends once the stream is over:
\* command_success, which is exit_code == 0, or False after an exception.
EventGeneratorEnd ==
    IF outcome = "returned"
    THEN CompleteEvent(exit_code = 0)
    ELSE CompleteEvent(FALSE)

\* The stream has returned or raised; the caller finishes.
CallerEnd ==
    /\ bpc = "done"
    /\ response.kind = "none"
    /\ IF caller = "event_generator"
       THEN /\ events' = Append(events, EventGeneratorEnd)
            /\ response' = [kind |-> "return", value |-> <<>>,
                            success |-> FALSE, exit_code |-> 0]
       ELSE /\ response' = (IF caller = "run_command"
                            THEN RunCommandEnd ELSE ExecuteBuildEnd)
            /\ UNCHANGED events
    /\ UNCHANGED <<caller, output_lines, exit_code>>
    /\ UNCHANGED streamVars
    /\ UNCHANGED offCaller

\* ---------------------------------------------------------- TaskService
UploadIds == 1..MaxTasks
FileNames == {"orm.xml"}
None == "None"
Terminal == {"success", "failed"}

\* Task(file_name=file_name): the defaults of the model's fields
Task(file_name) ==
    [file_name |-> file_name, status |-> "pending", error_message |-> None,
     result |-> None, completed_at |-> None]

NoReply == [op |-> "none", id |-> 0, code |-> 0, body |-> None]

InitTasks ==
    /\ store = <<>>
    /\ scheduled = <<>>
    /\ running = 0
    /\ tpc = "idle"
    /\ ai_response = None
    /\ parse_result = None
    /\ error = None
    /\ reply = NoReply

\* The handlers below are coroutines of one event loop and _process_task
\* never awaits: while one is inside its body no other handler runs.
LoopFree == running = 0

\* submit_task: a new Task is saved under a fresh id and its _process_task
\* is handed to the event loop.
SubmitTask ==
    /\ LoopFree
    /\ Len(store) < MaxTasks
    /\ \E f \in FileNames :
        LET id == Len(store) + 1 IN
            /\ store' = Append(store, Task(f))
            /\ scheduled' = Append(scheduled, id)
            /\ reply' = [op |-> "submit_task", id |-> id, code |-> 200,
                         body |-> None]
    /\ UNCHANGED <<running, tpc, ai_response, parse_result, error>>
    /\ UNCHANGED offTasks

\* _process_task starts: task = self.store.get(task_id), return if missing.
ProcessGet ==
    /\ LoopFree
    /\ scheduled # <<>>
    /\ scheduled' = Tail(scheduled)
    /\ IF Head(scheduled) \in DOMAIN store
       THEN /\ running' = Head(scheduled)
            /\ tpc' = "processing"
       ELSE UNCHANGED <<running, tpc>>
    /\ UNCHANGED <<store, ai_response, parse_result, error, reply>>
    /\ UNCHANGED offTasks

\* task.status = TaskStatus.PROCESSING; self.store.save(task)
MarkProcessing ==
    /\ tpc = "processing"
    /\ store' = [store EXCEPT ![running].status = "processing"]
    /\ tpc' = "generate"
    /\ UNCHANGED <<scheduled, running, ai_response, parse_result, error, reply>>
    /\ UNCHANGED offTasks

\* ai_response = self.ai_service.generate_orm(content): the blocking call
\* returns a document with an entity, returns something else, or raises.
Generate ==
    /\ tpc = "generate"
    /\ \E out \in {"entity xml", "other text", "raise"} :
        IF out = "raise"
        THEN /\ error' = "api error"
             /\ tpc' = "except"
             /\ UNCHANGED ai_response
        ELSE /\ ai_response' = out
             /\ tpc' = "parse"
             /\ UNCHANGED error
    /\ UNCHANGED <<store, scheduled, running, parse_result, reply>>
    /\ UNCHANGED offTasks

\* result = self.parser.parse(ai_response): an OrmGenerationResult, or
\* ValueError for text that is not XML or holds no entity.
Parse ==
    /\ tpc = "parse"
    /\ IF ai_response = "entity xml"
       THEN /\ parse_result' = "OrmGenerationResult"
            /\ tpc' = "success"
            /\ UNCHANGED error
       ELSE /\ error' = "ValueError"
            /\ tpc' = "except"
            /\ UNCHANGED parse_result
    /\ UNCHANGED <<store, scheduled, running, ai_response, reply>>
    /\ UNCHANGED offTasks

\* task.status = TaskStatus.SUCCESS
SetSuccess ==
    /\ tpc = "success"
    /\ store' = [store EXCEPT ![running].status = "success"]
    /\ tpc' = "result"
    /\ UNCHANGED <<scheduled, running, ai_response, parse_result, error, reply>>
    /\ UNCHANGED offTasks

\* task.result = result
SetResult ==
    /\ tpc = "result"
    /\ store' = [store EXCEPT ![running].result = parse_result]
    /\ tpc' = "completed"
    /\ UNCHANGED <<scheduled, running, ai_response, parse_result, error, reply>>
    /\ UNCHANGED offTasks

\* The end of the coroutine: its locals are gone and the loop is free.
Return ==
    /\ running' = 0
    /\ tpc' = "idle"
    /\ ai_response' = None
    /\ parse_result' = None
    /\ error' = None

\* task.completed_at = datetime.utcnow(); self.store.save(task)
SetCompleted ==
    /\ tpc = "completed"
    /\ store' = [store EXCEPT ![running].completed_at = "utcnow"]
    /\ Return
    /\ UNCHANGED <<scheduled, reply>>
    /\ UNCHANGED offTasks

\* except Exception as e: task.status = TaskStatus.FAILED
SetFailed ==
    /\ tpc = "except"
    /\ store' = [store EXCEPT ![running].status = "failed"]
    /\ tpc' = "message"
    /\ UNCHANGED <<scheduled, running, ai_response, parse_result, error, reply>>
    /\ UNCHANGED offTasks

\* task.error_message = str(e)
SetErrorMessage ==
    /\ tpc = "message"
    /\ store' = [store EXCEPT ![running].error_message = error]
    /\ tpc' = "failed"
    /\ UNCHANGED <<scheduled, running, ai_response, parse_result, error, reply>>
    /\ UNCHANGED offTasks

FailedRecordWithoutTime(task) == task

\* task.completed_at = datetime.utcnow()
FailedRecord(task) == [task EXCEPT !.completed_at = "utcnow"]

\* task.completed_at = datetime.utcnow(); self.store.save(task)
SetFailedCompleted ==
    /\ tpc = "failed"
    /\ store' = [store EXCEPT ![running] = FailedRecord(@)]
    /\ Return
    /\ UNCHANGED <<scheduled, reply>>
    /\ UNCHANGED offTasks

\* GET /tasks/{task_id}: the task, or 404
GetTaskStatus ==
    /\ LoopFree
    /\ \E id \in UploadIds :
        reply' = IF id \in DOMAIN store
                 THEN [op |-> "get_task_status", id |-> id, code |-> 200,
                       body |-> store[id]]
                 ELSE [op |-> "get_task_status", id |-> id, code |-> 404,
                       body |-> None]
    /\ UNCHANGED <<store, scheduled, running, tpc, ai_response, parse_result, error>>
    /\ UNCHANGED offTasks

\* GET /tasks/{task_id}/result: 404 for an unknown task, 400 unless the
\* status is SUCCESS, else task.result
GetResultOf(id) ==
    IF id \notin DOMAIN store
    THEN [op |-> "get_result", id |-> id, code |-> 404, body |-> None]
    ELSE IF store[id].status # "success"
    THEN [op |-> "get_result", id |-> id, code |-> 400, body |-> None]
    ELSE [op |-> "get_result", id |-> id, code |-> 200,
          body |-> store[id].result]

TaskResult ==
    /\ LoopFree
    /\ \E id \in UploadIds : reply' = GetResultOf(id)
    /\ UNCHANGED <<store, scheduled, running, tpc, ai_response, parse_result, error>>
    /\ UNCHANGED offTasks

ProcessStep ==
    \/ ProcessGet
    \/ MarkProcessing
    \/ Generate
    \/ Parse
    \/ SetSuccess
    \/ SetResult
    \/ SetCompleted
    \/ SetFailed
    \/ SetErrorMessage
    \/ SetFailedCompleted

NextTasks ==
    \/ SubmitTask
    \/ ProcessStep
    \/ GetTaskStatus
    \/ TaskResult

\* ------------------------------------------------------------ specification
\* run_command_stream never touches the ProcessManager and the ProcessManager
\* never touches a session, so a run makes one streaming call or a series of
\* registry operations.
Workload ==
    \/ callsLeft = 1 /\ opsLeft = 0
    \/ callsLeft = 0 /\ opsLeft = MaxOps

\* No pair of concurrent sessions is started.
NoPair == bpcOf = [s \in Sessions |-> "off"]

\* Every signal can be sent.
Init ==
    /\ InitStream
    /\ InitRegistry
    /\ InitPair
    /\ InitOwner
    /\ InitCaller
    /\ InitTasks
    /\ caller = "none"
    /\ NoPair
    /\ Workload
    /\ faults = FALSE

Next == NextStream \/ NextRegistry

Spec == Init /\ [][Next]_vars

\* The same program where sending a signal to a running process may fail
\* (os.kill raising PermissionError, say).
InitFaults ==
    /\ InitStream
    /\ InitRegistry
    /\ InitPair
    /\ InitOwner
    /\ InitCaller
    /\ InitTasks
    /\ caller = "none"
    /\ NoPair
    /\ Workload
    /\ faults \in BOOLEAN

SpecFaults == InitFaults /\ [][Next]_vars

\* Two sessions at once, or a series of registry operations: a session's
\* process never enters the registry.
InitConcurrent ==
    /\ InitStream
    /\ InitRegistry
    /\ InitPair
    /\ InitOwner
    /\ InitCaller
    /\ InitTasks
    /\ caller = "none"
    /\ callsLeft = 0
    /\ faults = FALSE
    /\ \/ bpcOf = [s \in Sessions |-> "idle"] /\ opsLeft = 0
       \/ NoPair /\ opsLeft = MaxOps

NextConcurrent == NextPair \/ NextRegistry

SpecConcurrent == InitConcurrent /\ [][NextConcurrent]_vars

\* A series of registry operations while the session that owns one of the
\* registered processes is cancelled or times out.
InitShared ==
    /\ InitStream
    /\ InitRegistry
    /\ InitPair
    /\ InitOwner
    /\ InitCaller
    /\ InitTasks
    /\ caller = "none"
    /\ NoPair
    /\ callsLeft = 0
    /\ opsLeft = MaxOps
    /\ faults = FALSE

NextShared == NextRegistry \/ NextOwner

SpecShared == InitShared /\ [][NextShared]_vars

\* One streaming call made by one of the callers that drain the stream.
InitCallers ==
    /\ InitStream
    /\ InitRegistry
    /\ InitPair
    /\ InitOwner
    /\ InitCaller
    /\ InitTasks
    /\ NoPair
    /\ caller \in Callers
    /\ callsLeft = 1
    /\ opsLeft = 0
    /\ faults = FALSE

NextCallers ==
    \/ Begin
    \/ LoopTest
    \/ Poll
    \/ CallerPull
    \/ CallerEnd
    \/ Check
    \/ Sleep
    \/ GetResult
    \/ TimeoutKill
    \/ Tick
    \/ WorkerPopen
    \/ WorkerPublish
    \/ WorkerReadLine
    \/ WorkerEof
    \/ WorkerWait
    \/ WorkerFinish
    \/ ChildWrite
    \/ ChildExit

SpecCallers == InitCallers /\ [][NextCallers]_vars

\* The steps of the generator that do not wait for the consumer.
BridgeStep ==
    \/ Begin
    \/ LoopTest
    \/ Poll
    \/ Check
    \/ Sleep
    \/ GetResult
    \/ GxTerminate
    \/ GxWait
    \/ GxKill
    \/ TimeoutKill

WorkerStep ==
    \/ WorkerPopen
    \/ WorkerPublish
    \/ WorkerReadLine
    \/ WorkerEof
    \/ WorkerWait
    \/ WorkerFinish

\* The event loop runs the generator whenever it can go on, the operating
\* system runs the worker thread and a child that is not hanging, time passes,
\* and the consumer answers every yield (by the next pull or by closing).
Fairness ==
    /\ WF_vars(BridgeStep)
    /\ WF_vars(WorkerStep)
    /\ WF_vars(ChildWrite \/ ChildExit)
    /\ WF_vars(Tick)
    /\ WF_vars(Resume \/ Abandon)

FairSpec == Spec /\ Fairness

\* The TaskService alone. The event loop runs every coroutine handed to it
\* and the blocking calls of _process_task return or raise.
InitTasksOnly ==
    /\ InitStream
    /\ InitRegistry
    /\ InitPair
    /\ InitOwner
    /\ InitCaller
    /\ InitTasks
    /\ NoPair
    /\ caller = "none"
    /\ callsLeft = 0
    /\ opsLeft = 0
    /\ faults = FALSE

SpecTasks == InitTasksOnly /\ [][NextTasks]_vars /\ WF_vars(ProcessStep)


\* ------------------------------------------------------------------ claims
\* What the consumer has received.
Stream == [i \in 1..Len(yielded) |-> yielded[i].text]

LastItem == yielded[Len(yielded)]

\* The child ran to completion by itself (signals give negative codes).
ExitedByItself == cstate = "exited" /\ returncode \in ExitCodes

\* Popen raised: the worker went to its end without a child.
SpawnFailed == cstate = "none" /\ wpc \in {"fin", "dead"}

\* The items the bridge took from the output queue, in the order it yielded them.
YieldedLines == SelectSeq(yielded, LAMBDA item : item.src = "queue")

\* C1: for a command that exits with code 0 and prints K lines, the finished
\* stream is exactly the K lines the worker enqueued, in order, followed by
\* the marker of code 0, in every interleaving of worker and bridge.
C1_AllLinesThenMarkerZero ==
    (outcome = "returned" /\ ExitedByItself /\ returncode = 0)
        => /\ Len(enqueued) = nlines
           /\ Stream = enqueued \o <<Marker(0)>>

\* C2: the lines yielded are the lines the worker enqueued, in the same order,
\* none twice (they form an initial part of what was enqueued), and the marker,
\* once yielded, is the last item: the bridge takes nothing from the output
\* queue after it.
C2_OrderKeptMarkerLast ==
    /\ Len(YieldedLines) <= Len(enqueued)
    /\ \A i \in 1..Len(YieldedLines) : YieldedLines[i].text = enqueued[i]
    /\ \A i \in 1..Len(yielded) : yielded[i].src = "marker" => i = Len(yielded)

\* C2 witness: two lines were yielded and then the marker.
C2_Witness ==
    /\ Len(yielded) = 3
    /\ LastItem.src = "marker"
    /\ yielded[1].text # yielded[2].text

C4_EverySessionEnds == (bpc # "idle") ~> (bpc = "done")

\* A session with no timeout whose child is running and never exits.
HungWithoutTimeout == timeout = 0 /\ hangs /\ cstate = "running"

\* C4 amended: every session that has started ends for its consumer (the
\* generator returns after the marker, or raises), unless no timeout is
\* configured and the child never exits.
C4_SessionEndsUnlessHungWithoutTimeout ==
    (bpc # "idle") ~> (bpc = "done" \/ HungWithoutTimeout)

\* C4 witness: a session whose child never exits was ended by the timeout.
C4_Witness ==
    /\ bpc = "done"
    /\ outcome = "TimeoutError"
    /\ hangs
    /\ siglog = <<"kill">>

\* C5: once the configured timeout is exceeded and the terminal record of the
\* child has not been observed yet, the bridge does not go on to yield the
\* exit-code marker (it raises the timeout error).
C5_NoMarkerOnceTimeoutExceeded ==
    [][(timeout # 0 /\ elapsed > timeout /\ bpc = "result" /\ cstate # "none")
        => bpc' # "yieldMarker"]_vars

\* C6: whenever the timeout error has left run_command_stream, the child of
\* the session is not running, now or later.
C6_NoChildAfterTimeoutError ==
    outcome = "TimeoutError" => cstate # "running"

\* The termination sequence: terminate, wait, kill only if the wait expired.
TwoPhase(log) ==
    log \in {<<"terminate", "wait_exited">>, <<"terminate", "wait_expired", "kill">>}

\* C7: when the consumer closes the stream at the yield of a line, the bridge
\* has terminated the child (terminate, wait, kill if still alive) by the time
\* GeneratorExit leaves the generator, and the child is not running from then on.
C7_AbandonStopsChild ==
    (outcome = "GeneratorExit" /\ LastItem.src = "queue")
        => /\ cstate = "exited"
           /\ TwoPhase(siglog)

\* C7 witness: a closed stream whose child ignored the terminate request and
\* was killed after the wait expired.
C7_Witness ==
    /\ outcome = "GeneratorExit"
    /\ LastItem.src = "queue"
    /\ siglog = <<"terminate", "wait_expired", "kill">>
    /\ returncode = KilledCode

LooksLikeNonzeroExit ==
    /\ outcome = "returned"
    /\ LastItem.text[1] = "__BUILD_EXIT_CODE:"
    /\ LastItem.text[2] # "0"

\* C9: when the child cannot be spawned, the stream holds no output line and
\* the failure does not reach the caller in the form a command that ran and
\* exited with a nonzero code takes (a returned stream ending in a marker of a
\* nonzero code).
C9_SpawnFailureDistinguishable ==
    (bpc = "done" /\ SpawnFailed)
        => /\ YieldedLines = <<>>
           /\ ~LooksLikeNonzeroExit

\* C10: a supplied working directory that does not exist makes the call raise
\* FileNotFoundError with no thread started, no child spawned and nothing put
\* on either queue; nothing else raises it.
C10_MissingCwdRaisesFirst ==
    /\ (bpc # "idle" /\ cwd = "missing")
        => /\ bpc = "done"
           /\ outcome = "FileNotFoundError"
           /\ wpc = "none"
           /\ cstate = "none"
           /\ enqueued = <<>>
           /\ output_queue = <<>>
           /\ result_queue = <<>>
           /\ yielded = <<>>
    /\ outcome = "FileNotFoundError" => cwd = "missing"

\* C10 witness: the call has raised FileNotFoundError.
C10_Witness == outcome = "FileNotFoundError" /\ cwd = "missing" /\ bpc = "done"

\* A call of terminate() or kill() raised during this termination.
CleanupFailed(log) ==
    \E i \in 1..Len(log) : log[i] \in {"terminate_failed", "kill_failed"}

\* The termination was started by the handler of GeneratorExit (the one of
\* TimeoutError starts with kill).
StartedByCancellation(log) ==
    Len(log) > 0 /\ log[1] \in {"terminate", "terminate_failed"}

\* C11: a terminate() or kill() that fails during cleanup does not change
\* what the caller sees: a cancelled session still ends with GeneratorExit
\* only, a timed out one with TimeoutError only, a finished stop_process has
\* returned True or False (False when its cleanup failed), and a finished
\* stop_all has returned normally.
C11_CleanupFailureNeverSurfaces ==
    /\ (bpc = "done" /\ CleanupFailed(siglog)) =>
            outcome = (IF StartedByCancellation(siglog)
                       THEN "GeneratorExit" ELSE "TimeoutError")
    /\ outcome \in {"none", "returned", "Empty", "FileNotFoundError",
                    "GeneratorExit", "TimeoutError"}
    /\ (lastOp.op = "stop_process" /\ spc = "idle") =>
            /\ lastRet \in {"True", "False"}
            /\ CleanupFailed(slog) => lastRet = "False"
    /\ lastOp.op = "stop_all" => lastRet = "None"

\* A cancelled session whose kill() raised after the wait expired: the child
\* is still running and the consumer's close sees GeneratorExit only.
C11_Witness ==
    /\ bpc = "done"
    /\ outcome = "GeneratorExit"
    /\ siglog = <<"terminate", "wait_expired", "kill_failed">>
    /\ cstate = "running"

\* C12: when stop_process returns for an id that was registered when it was
\* called (it got past the lookup), the id is not in the registry any more,
\* whether it returns True or False.
C12_StoppedIdLeavesRegistry ==
    [][(spc # "idle" /\ spc' = "idle") => sid \notin DOMAIN processes']_vars

\* The step is a call stop_process(id) for an id that is not registered.
StopUnknownStep ==
    /\ spc = "idle"
    /\ opsLeft' = opsLeft - 1
    /\ lastOp'.op = "stop_process"
    /\ lastOp'.id \notin DOMAIN processes

\* C13: stop_process(id) for an id that is not registered returns False at
\* once: it raises nothing, calls terminate or kill on no process, changes
\* no process and leaves every entry of the registry as it was.
C13_StopUnknownIdIsNotFound ==
    [][StopUnknownStep =>
          /\ lastRet' = "False"
          /\ spc' = "idle"
          /\ processes' = processes
          /\ pstate' = pstate
          /\ signalled' = signalled
          /\ slog' = slog
          /\ lock' = lock]_vars

\* stop_process has just returned False for an id that is absent while
\* another id is registered with a running process nobody has signalled.
C13_Witness ==
    /\ lastOp.op = "stop_process"
    /\ lastOp.id \notin DOMAIN processes
    /\ lastRet = "False"
    /\ slog = <<>>
    /\ signalled = {}
    /\ \E id \in DOMAIN processes : pstate[processes[id]] = "running"

\* C14: no entry of the registry refers to a process that has exited (looked
\* at while no stop_process is in the middle of its work).
C14_NoEntryForExitedProcess ==
    ~lock => \A id \in DOMAIN processes : pstate[processes[id]] # "exited"

\* The step is a call register(id, p) with id = lastOp'.id, p = lastOp'.proc.
RegisterStep ==
    /\ opsLeft' = opsLeft - 1
    /\ lastOp'.op = "register"

\* The processes on which this step calls terminate() or kill().
NewlySignalled == signalled' \ signalled

\* C15: register(id, p2) puts p2 under id in place of any process the id
\* mapped to, touches no other entry and signals nothing (the replaced
\* process keeps its state); no later stop_process or stop_all signals a
\* process that was running when register replaced it: they signal only
\* processes that are in the registry at that time.
C15_ReplacedProcessOutOfReach ==
    [][/\ RegisterStep =>
            /\ lastOp'.id \in DOMAIN processes'
            /\ processes'[lastOp'.id] = lastOp'.proc
            /\ \A id \in TaskIds \ {lastOp'.id} :
                  /\ (id \in DOMAIN processes') = (id \in DOMAIN processes)
                  /\ id \in DOMAIN processes => processes'[id] = processes[id]
            /\ signalled' = signalled
            /\ \A p \in Registered(processes) : pstate'[p] = pstate[p]
       /\ NewlySignalled \cap orphaned = {}
       /\ NewlySignalled \subseteq Registered(processes)]_vars

\* A process was running when register replaced it, later stop calls were
\* made, and it is still running, registered under no id and never signalled.
C15_Witness ==
    /\ lastOp.op \in {"stop_process", "stop_all"}
    /\ spc = "idle"
    /\ signalled # {}
    /\ \E p \in orphaned :
          /\ pstate[p] = "running"
          /\ p \notin Registered(processes)
          /\ p \notin signalled

\* The step is a call stop_all().
StopAllStep ==
    /\ opsLeft' = opsLeft - 1
    /\ lastOp'.op = "stop_all"

\* C16: stop_all calls kill() once on every process that is registered when
\* it is called, and on no other; it goes through no terminate or wait, it
\* returns normally and the registry is empty afterwards, also when some of
\* the kills raised (those processes are the only ones that can survive).
C16_StopAllKillsAndClears ==
    [][StopAllStep =>
          /\ processes' = <<>>
          /\ lastRet' = "None"
          /\ Registered(processes) \subseteq signalled'
          /\ NewlySignalled \subseteq Registered(processes)
          /\ slog' = slog /\ spc' = spc /\ lock' = lock
          /\ \A p \in Registered(processes) :
                \/ pstate'[p] = "exited"
                \/ faults /\ pstate[p] = "running" /\ pstate'[p] = "running"
          /\ \A p \in Procs \ Registered(processes) : pstate'[p] = pstate[p]]_vars

\* stop_all has returned with two processes registered: the kill of one
\* raised (it is still running), the other one is dead, the registry is empty.
C16_Witness ==
    /\ lastOp.op = "stop_all"
    /\ processes = <<>>
    /\ slog = <<>>
    /\ faults
    /\ \E p \in signalled, q \in signalled :
          pstate[p] = "running" /\ pstate[q] = "exited"

\* The step is a call unregister(id) with id = lastOp'.id.
UnregisterStep ==
    /\ opsLeft' = opsLeft - 1
    /\ lastOp'.op = "unregister"

\* C17: unregister(id) returns normally with id absent from the registry; on
\* an absent id it changes nothing, a second call changes nothing more, no
\* process is signalled or changed and every other id keeps its entry.
C17_UnregisterIdempotent ==
    [][UnregisterStep =>
          /\ lastRet' = "None"
          /\ lastOp'.id \notin DOMAIN processes'
          /\ lastOp'.id \notin DOMAIN processes => processes' = processes
          /\ UnregisterMap(processes', lastOp'.id) = processes'
          /\ \A id \in TaskIds \ {lastOp'.id} :
                /\ (id \in DOMAIN processes') = (id \in DOMAIN processes)
                /\ id \in DOMAIN processes => processes'[id] = processes[id]
          /\ pstate' = pstate
          /\ signalled' = signalled
          /\ slog' = slog /\ spc' = spc /\ lock' = lock]_vars

\* unregister has returned for an id that was absent, while the one process
\* ever registered is still registered under the other id, running and never
\* signalled.
C17_Witness ==
    /\ lastOp.op = "unregister"
    /\ lastOp.id \notin DOMAIN processes
    /\ opsLeft = MaxOps - 3
    /\ signalled = {}
    /\ \E id \in DOMAIN processes :
          /\ pstate[processes[id]] = "running"
          /\ \A p \in Procs \ {processes[id]} : pstate[p] = "none"

\* C18: while a stop_process call is waiting for its process to exit, the
\* registry lock is free and another thread's unregister (or register, or
\* stop_process) can be carried out.
C18_LockFreeDuringWait ==
    (spc = "wait" /\ opsLeft > 0) => (~lock /\ ENABLED Unregister)

\* C19: each consumer of two concurrent sessions receives only items its own
\* worker put on its own queues; and a stop_process call signals no process
\* other than the one registered under the id it was given.
C19_SessionsIsolated ==
    /\ [](\A s \in Sessions : \A i \in 1..Len(yieldedOf[s]) :
              yieldedOf[s][i].owner = s)
    /\ [][(lastOp.op = "stop_process" /\ spc # "idle") =>
              \A id \in DOMAIN processes \ {lastOp.id} :
                    processes[id] \notin NewlySignalled]_vars

\* Both sessions are over and each consumer has received every line of its
\* own child and its own marker.
C19_Witness ==
    \A s \in Sessions :
        /\ bpcOf[s] = "done"
        /\ nlinesOf[s] = MaxLines
        /\ Len(yieldedOf[s]) = MaxLines + 1

\* C20: when stop_process and a handler of the session that owns the process
\* (cancellation or timeout) act on one process, in any interleaving and
\* whether or not the process has already exited, each caller sees only its
\* own result (True or False; GeneratorExit; TimeoutError) and the process is
\* not running once either of them is through with it.
C20_TerminationIdempotent ==
    /\ ooutcome \in {"none", "GeneratorExit", "TimeoutError"}
    /\ opc = "done" =>
          /\ ooutcome = (IF StartedByCancellation(olog)
                         THEN "GeneratorExit" ELSE "TimeoutError")
          /\ pstate[oproc] = "exited"
    /\ (lastOp.op = "stop_process" /\ spc = "idle") =>
          /\ lastRet \in {"True", "False"}
          /\ lastRet = "True" => pstate[sproc] = "exited"

\* stop_process and the cancellation handler have both gone through
\* terminate, an expired wait and kill on the same process: each was inside
\* its termination while the process was still running.
C20_Witness ==
    /\ opc = "done"
    /\ ooutcome = "GeneratorExit"
    /\ spc = "idle"
    /\ lastOp.op = "stop_process"
    /\ lastRet = "True"
    /\ sproc = oproc
    /\ olog = <<"terminate", "wait_expired", "kill">>
    /\ slog = <<"terminate", "wait_expired", "kill">>
    /\ pstate[oproc] = "exited"

\* if line.startswith("__BUILD_EXIT_CODE:") in build.py: the text reads as an
\* exit-code marker.
LooksLikeMarker(text) == Len(text) > 0 /\ text[1] = "__BUILD_EXIT_CODE:"

\* C21: an item in the marker format is always the one the bridge built from
\* the terminal record, and it is the last item; no line of the child's
\* output reads as a marker.
C21_MarkerFormatOnlyFromBridge ==
    \A i \in 1..Len(yielded) :
        LooksLikeMarker(yielded[i].text)
            => (yielded[i].src = "marker" /\ i = Len(yielded))

\* C22: run_command ends only when the stream has ended; when the stream
\* returned, it returns the items of the stream, all of them and in order,
\* joined by newlines; when the stream raised, it raises the same exception
\* and returns nothing.
C22_RunCommandJoinsStream ==
    (caller = "run_command" /\ response.kind # "none")
        => /\ bpc = "done"
           /\ Len(output_lines) = Len(yielded)
           /\ IF outcome = "returned"
              THEN /\ response.kind = "return"
                   /\ response.value = Join(Stream)
              ELSE /\ response.kind = "raise"
                   /\ response.value = <<outcome>>

\* run_command has returned the join of two output lines and the marker.
C22_Witness ==
    /\ caller = "run_command"
    /\ response.kind = "return"
    /\ Len(yielded) = 3
    /\ response.value = yielded[1].text \o <<"\n">> \o yielded[2].text
                            \o <<"\n">> \o yielded[3].text

\* Terminal records the worker has put so far: those still in the result
\* queue and the one the bridge took to build the marker.
RecordsPut ==
    Len(result_queue)
        + Cardinality({i \in 1..Len(yielded) : yielded[i].src = "marker"})

WithoutTerminator(line) ==
    IF line # <<>> /\ line[Len(line)] = "\n"
    THEN SubSeq(line, 1, Len(line) - 1) ELSE line

\* C24: the worker enqueues one item for every line it has read, blank lines
\* included, and the item is the line as the child wrote it with only the
\* line terminator removed.
C24_LinesKeptVerbatim ==
    /\ Len(enqueued) = readIdx
    /\ \A i \in 1..Len(enqueued) : enqueued[i] = WithoutTerminator(ChildLine(i))

\* C25: the bridge reaches a poll of the output queue only through its loop
\* test, and it comes back to the loop test only from `await
\* asyncio.sleep(0)` (or from the start of the call): after a poll, whether
\* it gave a line or found the queue empty, the next poll is made only after
\* the bridge has been through the sleep.
C25_SleepBetweenPolls ==
    [][/\ (bpc' = "poll" /\ bpc # "poll") => bpc = "loop"
       /\ (bpc' = "loop" /\ bpc # "loop") => bpc \in {"idle", "sleep"}
       /\ bpc = "poll" => bpc' \in {"poll", "yield", "check"}
       /\ bpc = "yield" => bpc' \in {"yield", "check", "gx"}
       /\ bpc = "check" => bpc' \in {"check", "sleep", "tk"}]_vars

\* The bridge is at its next poll after the one that gave it a line: it has
\* been through the sleep in between, and will now find the queue empty.
C25_Witness ==
    /\ bpc = "poll"
    /\ Len(yielded) = 1
    /\ output_queue = <<>>
    /\ enqueued # <<>>
    /\ nlines = 2
    /\ written = 1

\* C26: the calls on the registry run one at a time. The lock is held
\* exactly while a stop_process is at work; as long as it is held no other
\* call starts and the map does not change, so the entry stop_process looked
\* up is still the one it acts on and deletes; register, unregister and
\* stop_all read and change the map in one step, with the lock free before
\* and after. The map is therefore always the result of the calls made so
\* far, applied one after the other in the order they took the lock.
C26_CallsSerialized ==
    /\ [](/\ lock = (spc # "idle")
          /\ lock => (sid \in DOMAIN processes /\ processes[sid] = sproc))
    /\ [][/\ (lock /\ lock') => (processes' = processes /\ lastOp' = lastOp)
          /\ (processes' # processes) =>
                \/ ~lock /\ ~lock' /\ lastOp'.op \in {"register", "unregister", "stop_all"}
                \/ lock /\ ~lock' /\ processes' = Remove(processes, sid)]_vars

\* stop_process is waiting for its process with the lock held while the
\* callers have another call to make, which has to wait for the lock.
C26_Witness ==
    /\ lock
    /\ spc = "wait"
    /\ opsLeft > 0
    /\ sid \in DOMAIN processes
    /\ ~ENABLED Unregister

\* C27 as stated: the timeout check does not fire for a child that has
\* exited by itself within its time budget.
C27_NoTimeoutForFinishedChild ==
    [][(bpc = "check" /\ bpc' = "tk") => ~(cstate = "exited" /\ exitedInTime)]_vars

\* C27 amended: the timeout error is raised exactly when one of the checks of
\* the polling loop (made after each yielded line and after each empty poll,
\* while the worker thread was alive at the loop test) finds the elapsed time
\* above the configured timeout, whatever the state of the child; a session
\* that raised it has yielded no marker.
C27_TimeoutIgnoresChildState ==
    /\ [][(bpc = "check" /\ bpc' # "check")
            => ((bpc' = "tk") <=> (timeout # 0 /\ elapsed > timeout))]_vars
    /\ [][(bpc' = "tk" /\ bpc # "tk") => bpc = "check"]_vars
    /\ [](outcome = "TimeoutError" =>
            \A i \in 1..Len(yielded) : yielded[i].src = "queue")

\* The timeout error was raised for a child that had exited by itself within
\* its budget, after the consumer had received a line.
C27_Witness ==
    /\ outcome = "TimeoutError"
    /\ cstate = "exited"
    /\ exitedInTime
    /\ returncode \in ExitCodes
    /\ Len(yielded) > 0

\* C28 as stated: execute_build answers success=True with exit_code=0 only
\* for a command that exited by itself with code 0.
C28_SuccessOnlyForExitZero ==
    (caller = "execute_build" /\ response.kind = "return" /\ response.success
        /\ response.exit_code = 0)
    => (ExitedByItself /\ returncode = 0)

Completes(evs) == {i \in 1..Len(evs) : evs[i].type = "complete"}

\* C29: event_generator sends no 'complete' event while the stream runs and
\* exactly one, as its last event, once the stream is over; that event says
\* success exactly when the stream returned normally with the marker of exit
\* code 0 as its final item; no 'log' event carries a marker-format line.
C29_OneCompleteEventLast ==
    caller = "event_generator" =>
        /\ (response.kind = "none") <=> (Completes(events) = {})
        /\ response.kind # "none" =>
            /\ Completes(events) = {Len(events)}
            /\ events[Len(events)].success <=>
                (/\ outcome = "returned"
                 /\ Len(yielded) > 0
                 /\ LastItem = FromResult(Marker(0)))
        /\ \A i \in 1..Len(events) :
            events[i].type = "log" => ~LooksLikeMarker(events[i].line)

\* event_generator forwarded a line and finished with a failure report for
\* a command that exited with a nonzero code.
C29_Witness ==
    /\ caller = "event_generator"
    /\ response.kind = "return"
    /\ Len(events) >= 2
    /\ events[1].type = "log"
    /\ events[Len(events)] = CompleteEvent(FALSE)
    /\ outcome = "returned"
    /\ ExitedByItself
    /\ returncode > 0

\* event_generator finished with a success report.
C29_WitnessSuccess ==
    /\ caller = "event_generator"
    /\ response.kind = "return"
    /\ events[Len(events)] = CompleteEvent(TRUE)

StatusOf(id) == IF id \in DOMAIN store THEN store[id].status ELSE "absent"

StatusEdges ==
    {<<"pending", "processing">>, <<"processing", "success">>,
     <<"processing", "failed">>}

FieldsMatchStatus(task) ==
    /\ (task.result # None) <=> (task.status = "success")
    /\ (task.error_message # None) <=> (task.status = "failed")
    /\ (task.completed_at # None) <=> (task.status \in Terminal)

\* _process_task is between its assignment of a terminal status and the end
\* of its body; it does not await there, so no other handler runs meanwhile.
Finishing(id) ==
    running = id /\ tpc \in {"result", "completed", "message", "failed"}

\* C30: the status of a submitted task changes only along PENDING ->
\* PROCESSING -> SUCCESS or FAILED, so a terminal status is never left, and
\* every task eventually has a terminal status; result is set exactly when
\* the status is SUCCESS, error_message exactly when it is FAILED and
\* completed_at exactly when it is terminal, in every state but those inside
\* the uninterrupted tail of _process_task that assigns them; get_result
\* answers with a result only for a SUCCESS task, and the result is set.
C30_TaskLifecycle ==
    /\ [][\A id \in DOMAIN store :
            store'[id].status # store[id].status =>
                <<store[id].status, store'[id].status>> \in StatusEdges]_vars
    /\ [](\A id \in DOMAIN store :
            ~Finishing(id) => FieldsMatchStatus(store[id]))
    /\ [](LoopFree => \A id \in DOMAIN store : FieldsMatchStatus(store[id]))
    /\ []((reply.op = "get_result" /\ reply.code = 200) =>
            /\ StatusOf(reply.id) = "success"
            /\ reply.body = "OrmGenerationResult")
    /\ [](reply.op = "get_task_status" /\ reply.code = 200 =>
            FieldsMatchStatus(reply.body))
    /\ \A id \in UploadIds :
        (StatusOf(id) # "absent") ~> (StatusOf(id) \in Terminal)

\* One task succeeded and get_result returned its result, another failed.
C30_Witness ==
    /\ LoopFree
    /\ Len(store) = 2
    /\ store[1].status = "success"
    /\ store[1].result = "OrmGenerationResult"
    /\ store[2].status = "failed"
    /\ store[2].error_message = "ValueError"
    /\ reply = [op |-> "get_result", id |-> 1, code |-> 200,
                body |-> "OrmGenerationResult"]

====
